---------------------------- MODULE Spec2Model ----------------------------
(***************************************************************************)
(* Model of aes-eval/eval_aes.py: the AESBenchmark protocol engine         *)
(* (connect / disconnect / encrypt_block), the known-vector probe and the  *)
(* auto_detect port scan.                                                  *)
(*                                                                         *)
(* A byte on the serial link is a record [v, req, pos]: v is the value     *)
(* (0..255) the program sees; req and pos are history tags (which request  *)
(* the accelerator was answering, and the byte's index in that answer).    *)
(* The program's decoding reads only v.                                    *)
(***************************************************************************)
EXTENDS Integers, Sequences, FiniteSets, TLC

(***************************************************************************)
(* Program constants (class AESBenchmark).                                 *)
(***************************************************************************)
KEY_SIZE == 16
BLOCK_SIZE == 16
FRAME_MARKER == <<255, 255>>
TX_FRAME_SIZE == KEY_SIZE + BLOCK_SIZE + 2
RX_FRAME_SIZE == BLOCK_SIZE + 4

NIST_KEY == <<43, 126, 21, 22, 40, 174, 210, 166, 171, 247, 21, 136, 9, 207, 79, 60>>
NIST_PT == <<50, 67, 246, 168, 136, 90, 48, 141, 49, 49, 152, 162, 224, 55, 7, 52>>
NIST_CT == <<57, 37, 132, 29, 2, 220, 9, 251, 220, 17, 133, 151, 25, 106, 11, 50>>

(***************************************************************************)
(* Bounds of the model.                                                    *)
(***************************************************************************)
MaxCalls == 2
MaxPorts == 3
MaxTests == 3
MaxSamples == 3
MaxPixels == 16
MaxDuration == 3
MaxPerm == 5
MaxLen == 101

(***************************************************************************)
(* Sample inputs.                                                          *)
(***************************************************************************)
NoBytes == <<>>

Fill(n, b) == [i \in 1..n |-> b]

\* <<key, plaintext>> arguments a caller passes to encrypt_block: two valid pairs
\* (one made of 0xFF bytes, like the frame marker) and pairs with a wrong length
\* (0, 15, 17, 33 bytes)
Requests ==
    {<<NIST_KEY, NIST_PT>>, <<Fill(16, 255), Fill(16, 255)>>,
     <<Fill(15, 1), NIST_PT>>, <<Fill(17, 1), NIST_PT>>, <<NoBytes, NIST_PT>>,
     <<NIST_KEY, Fill(15, 2)>>, <<NIST_KEY, Fill(17, 2)>>, <<NIST_KEY, NoBytes>>,
     <<Fill(33, 3), Fill(15, 2)>>}

\* 4-byte cycle counters the accelerator may report: 300 and 0xFFFEFDFC
CycleSamples == {<<44, 1, 0, 0>>, <<252, 253, 254, 255>>}

BadBlock == Fill(16, 0)

VARIABLES
    ser,          \* self.ser: "None" (never opened), "Open", "Closed"
    port,         \* self.port of the current AESBenchmark object (0: no object)
    openHandles,  \* ports whose OS handle is open (any AESBenchmark object)
    pc,           \* position inside encrypt_block: "idle", "clear", "write", "read"
    key,          \* encrypt_block argument
    plaintext,    \* encrypt_block argument
    callNo,       \* number of encrypt_block calls made so far
    ops,          \* transport operations of the current call, in order
    rx_data,      \* bytes returned by the call's ser.read
    result,       \* outcome of the last encrypt_block call
    devq,         \* requests the accelerator has received and not yet answered
    wire,         \* response bytes in flight from the accelerator
    inbuf,        \* the serial input buffer
    staleAtClear, \* history: an earlier request was still unanswered or in flight
                  \* when the current call cleared the input buffer
    serAtEntry,   \* history: self.ser when the current call was entered
    abandoned,    \* history: a round trip on this connection ended short or timed out
    ports,        \* auto_detect: list_serial_ports()
    idx,          \* auto_detect: index of the current candidate
    adPc,         \* auto_detect: position
    adResult,     \* auto_detect: returned port (0: None)
    tried,        \* auto_detect history: one record per candidate tried
    mode,         \* benchmark harness: the test function that runs ("off": none)
    hpc,          \* harness: "run" (in the loop), "done" (returned), "raised"
    loc,          \* harness: the local variables of the running test function
    stats,        \* harness: the value the test function returned
    log           \* harness history: one record per encrypt_block call made

vars == <<ser, port, openHandles, pc, key, plaintext, callNo, ops, rx_data, result,
          devq, wire, inbuf, staleAtClear, serAtEntry, abandoned,
          ports, idx, adPc, adResult, tried, mode, hpc, loc, stats, log>>

engineVars == <<ser, port, openHandles, pc, key, plaintext, callNo, ops, rx_data,
                result, devq, wire, inbuf, staleAtClear, serAtEntry, abandoned>>

adVars == <<ports, idx, adPc, adResult, tried>>

hVars == <<mode, hpc, loc, stats, log>>

(***************************************************************************)
(* Pure helpers.                                                           *)
(***************************************************************************)
Values(bs) == [i \in 1..Len(bs) |-> bs[i].v]

Tagged(vs, r) == [i \in 1..Len(vs) |-> [v |-> vs[i], req |-> r, pos |-> i]]

Take(s, n) == SubSeq(s, 1, IF n < Len(s) THEN n ELSE Len(s))

Drop(s, n) == SubSeq(s, n + 1, Len(s))

\* tx_frame = key + plaintext + self.FRAME_MARKER
BuildTxFrame_Swapped(k, p) == p \o k \o FRAME_MARKER
BuildTxFrame(k, p) == k \o p \o FRAME_MARKER

(***************************************************************************)
(* An unsigned 32-bit number is kept as its two 16-bit halves [hi, lo]     *)
(* (value hi * 65536 + lo): the model checker's integers are 32-bit signed *)
(* and cannot hold 2^31 .. 2^32 - 1.                                       *)
(***************************************************************************)
RECURSIVE BytesLE(_)
BytesLE(b) == IF b = <<>> THEN 0 ELSE Head(b) + 256 * BytesLE(Tail(b))

RECURSIVE BytesBE(_)
BytesBE(b) == IF b = <<>> THEN 0 ELSE BytesBE(Take(b, Len(b) - 1)) * 256 + b[Len(b)]

U32Zero == [hi |-> 0, lo |-> 0]

\* struct.unpack('<I', b)[0]
UnpackU32_BigEndian(b) == [hi |-> BytesBE(Take(b, 2)), lo |-> BytesBE(Take(Drop(b, 2), 2))]
UnpackU32(b) == [lo |-> BytesLE(Take(b, 2)), hi |-> BytesLE(Take(Drop(b, 2), 2))]

\* if len(rx_data) != self.RX_FRAME_SIZE: return None, None
ReadIsComplete_AtLeastBlock(rx) == Len(rx) >= BLOCK_SIZE
ReadIsComplete_AllButOne(rx) == Len(rx) >= RX_FRAME_SIZE - 1
ReadIsComplete(rx) == Len(rx) = RX_FRAME_SIZE

NoneResult == [tag |-> "None", ciphertext |-> NoBytes, cycle_count |-> U32Zero]
RaisedResult(t) == [tag |-> t, ciphertext |-> NoBytes, cycle_count |-> U32Zero]

\* ciphertext = rx_data[:16]; cycle_count = struct.unpack('<I', rx_data[16:])[0]
ParseResponse(rx) ==
    [tag |-> "Ok",
     ciphertext |-> Take(Values(rx), BLOCK_SIZE),
     cycle_count |-> UnpackU32(Drop(Values(rx), BLOCK_SIZE))]

\* the entry checks of encrypt_block, in the code's order
EntryCheck_NoConnectionCheck(s, k, p) ==
    IF Len(k) # KEY_SIZE THEN "ValueError"
    ELSE IF Len(p) # BLOCK_SIZE THEN "ValueError"
    ELSE "Proceed"
EntryCheck_KeyOnly(s, k, p) ==
    IF s # "Open" THEN "NotConnected"
    ELSE IF Len(k) # KEY_SIZE THEN "ValueError"
    ELSE "Proceed"
EntryCheck(s, k, p) ==
    IF s # "Open" THEN "NotConnected"
    ELSE IF Len(k) # KEY_SIZE THEN "ValueError"
    ELSE IF Len(p) # BLOCK_SIZE THEN "ValueError"
    ELSE "Proceed"

\* self.ser.reset_input_buffer(): discards what has already arrived
ResetInputBuffer_Keep(buf) == buf
ResetInputBuffer(buf) == NoBytes

\* the straight-line order of encrypt_block's transport calls
PcAfter_RetryShort(step, rx) ==
    CASE step = "clear" -> "write"
      [] step = "write" -> "read"
      [] step = "read" -> IF Len(rx) = RX_FRAME_SIZE THEN "idle" ELSE "write"
PcAfter(step, rx) ==
    CASE step = "clear" -> "write"
      [] step = "write" -> "read"
      [] step = "read" -> "idle"

(***************************************************************************)
(* The reference cipher (Crypto.Cipher.AES, an external library) stands    *)
(* behind an abstract keyed byte-wise permutation that honours the         *)
(* FIPS-197 Appendix B vector.                                             *)
(***************************************************************************)
KeyStream(k) ==
    IF k = NIST_KEY
    THEN [i \in 1..BLOCK_SIZE |-> (NIST_CT[i] - NIST_PT[i]) % 256]
    ELSE [i \in 1..BLOCK_SIZE |-> (k[i] + i) % 256]

AesEncrypt(k, p) == [i \in 1..BLOCK_SIZE |-> (p[i] + KeyStream(k)[i]) % 256]

(***************************************************************************)
(* AESBenchmark.connect (lines 93-110).  The environment decides whether   *)
(* serial.Serial(...) opens the port and whether the following             *)
(* reset_input_buffer() succeeds; a SerialException from either is caught  *)
(* and connect returns False.  self.ser is assigned as soon as the         *)
(* constructor has returned.                                               *)
(***************************************************************************)
ConnectOutcomes == {"opened", "open_failed", "flush_failed"}

ConnectReturns(outcome) == outcome = "opened"

ConnectEffect(p, outcome, handles) ==
    /\ port' = p
    /\ IF outcome = "open_failed"
       THEN /\ ser' = "None"
            /\ openHandles' = handles
            /\ inbuf' = NoBytes
       ELSE /\ ser' = "Open"
            /\ openHandles' = handles \cup {p}
            /\ inbuf' = ResetInputBuffer(NoBytes)
    /\ devq' = <<>>
    /\ wire' = NoBytes

(***************************************************************************)
(* AESBenchmark.disconnect (lines 112-115).                                *)
(***************************************************************************)
DisconnectEffect ==
    IF ser = "Open"
    THEN /\ ser' = "Closed"
         /\ openHandles' = openHandles \ {port}
         /\ devq' = <<>>
         /\ wire' = NoBytes
         /\ inbuf' = NoBytes
    ELSE UNCHANGED <<ser, openHandles, devq, wire, inbuf>>

(***************************************************************************)
(* AESBenchmark.encrypt_block (lines 117-156), one action per blocking     *)
(* transport call.                                                         *)
(***************************************************************************)
Pending == [tag |-> "Pending", ciphertext |-> NoBytes, cycle_count |-> U32Zero]

EncryptEnter(k, p) ==
    /\ pc = "idle"
    /\ callNo < MaxCalls
    /\ callNo' = callNo + 1
    /\ key' = k
    /\ plaintext' = p
    /\ ops' = <<>>
    /\ rx_data' = NoBytes
    /\ staleAtClear' = FALSE
    /\ serAtEntry' = ser
    /\ LET c == EntryCheck(ser, k, p)
       IN  CASE c = "NotConnected" -> result' = NoneResult /\ pc' = "idle"
             [] c = "ValueError" -> result' = RaisedResult("ValueError") /\ pc' = "idle"
             [] c = "Proceed" -> result' = Pending /\ pc' = "clear"
    /\ UNCHANGED <<ser, port, openHandles, devq, wire, inbuf, abandoned>>

EncryptClear ==
    /\ pc = "clear"
    /\ inbuf' = ResetInputBuffer(inbuf)
    /\ ops' = Append(ops, "clear")
    /\ staleAtClear' = (devq # <<>> \/ wire # NoBytes)
    /\ pc' = PcAfter("clear", rx_data)
    /\ UNCHANGED <<ser, port, openHandles, key, plaintext, callNo, rx_data, result,
                   devq, wire, serAtEntry, abandoned>>

EncryptWrite ==
    /\ pc = "write"
    /\ devq' = Append(devq, [req |-> callNo, frame |-> BuildTxFrame(key, plaintext)])
    /\ ops' = Append(ops, "write")
    /\ pc' = PcAfter("write", rx_data)
    /\ UNCHANGED <<ser, port, openHandles, key, plaintext, callNo, rx_data, result,
                   wire, inbuf, staleAtClear, serAtEntry, abandoned>>

\* a connection closed by a read that came back short
ConnectionAfterRead_CloseOnShort(s, rx) == IF Len(rx) < RX_FRAME_SIZE THEN "Closed" ELSE s
\* self.ser after the read: encrypt_block returns without close() or a new Serial()
ConnectionAfterRead(s, rx) == s

\* ser.read(20): 20 bytes as soon as they are there, else what arrived by the timeout
EncryptRead ==
    /\ pc = "read"
    /\ LET rx == Take(inbuf, RX_FRAME_SIZE)
       IN  /\ rx_data' = rx
           /\ inbuf' = Drop(inbuf, Len(rx))
           /\ result' = IF ReadIsComplete(rx) THEN ParseResponse(rx) ELSE NoneResult
           /\ pc' = PcAfter("read", rx)
           /\ abandoned' = (abandoned \/ Len(rx) < RX_FRAME_SIZE)
           /\ ser' = ConnectionAfterRead(ser, rx)
    /\ ops' = Append(ops, "read")
    /\ UNCHANGED <<port, openHandles, key, plaintext, callNo, devq, wire,
                   staleAtClear, serAtEntry>>

\* the pending transport call raises serial.SerialException
EncryptIoRaise ==
    /\ pc \in {"clear", "write", "read"}
    /\ result' = RaisedResult("SerialException")
    /\ pc' = "idle"
    /\ UNCHANGED <<ser, port, openHandles, key, plaintext, callNo, ops, rx_data,
                   devq, wire, inbuf, staleAtClear, serAtEntry, abandoned>>

(***************************************************************************)
(* The accelerator and the serial link (wire protocol: 34-byte request,    *)
(* 20-byte response).  The input buffer is read and cleared only inside    *)
(* encrypt_block, so a byte that arrives while no call is in progress is   *)
(* indistinguishable from one that arrives at the start of the next call,  *)
(* before its clear: the link moves only while a call is in progress.      *)
(***************************************************************************)
LinkActive == ser = "Open" /\ pc # "idle"

DeviceRespond ==
    /\ LinkActive
    /\ devq # <<>>
    /\ LET rq == Head(devq)
           k == SubSeq(rq.frame, 1, KEY_SIZE)
           p == SubSeq(rq.frame, KEY_SIZE + 1, KEY_SIZE + BLOCK_SIZE)
       IN  \E ct \in {AesEncrypt(k, p), BadBlock}, cyc \in CycleSamples :
               wire' = wire \o Tagged(ct \o cyc, rq.req)
    /\ devq' = Tail(devq)
    /\ UNCHANGED <<ser, port, openHandles, pc, key, plaintext, callNo, ops, rx_data,
                   result, inbuf, staleAtClear, serAtEntry, abandoned>>

DeviceDrop ==
    /\ LinkActive
    /\ devq # <<>>
    /\ devq' = Tail(devq)
    /\ UNCHANGED <<ser, port, openHandles, pc, key, plaintext, callNo, ops, rx_data,
                   result, wire, inbuf, staleAtClear, serAtEntry, abandoned>>

Deliver ==
    /\ LinkActive
    /\ wire # NoBytes
    /\ inbuf' = Append(inbuf, Head(wire))
    /\ wire' = Tail(wire)
    /\ UNCHANGED <<ser, port, openHandles, pc, key, plaintext, callNo, ops, rx_data,
                   result, devq, staleAtClear, serAtEntry, abandoned>>

Environment == DeviceRespond \/ DeviceDrop \/ Deliver

EncryptSteps == EncryptClear \/ EncryptWrite \/ EncryptRead \/ EncryptIoRaise

(***************************************************************************)
(* Spec: one AESBenchmark object driven by an arbitrary caller.            *)
(***************************************************************************)
EngineInit ==
    /\ ser = "None"
    /\ port = 1
    /\ openHandles = {}
    /\ pc = "idle"
    /\ key = <<>>
    /\ plaintext = <<>>
    /\ callNo = 0
    /\ ops = <<>>
    /\ rx_data = NoBytes
    /\ result = NoneResult
    /\ devq = <<>>
    /\ wire = NoBytes
    /\ inbuf = NoBytes
    /\ staleAtClear = FALSE
    /\ serAtEntry = "None"
    /\ abandoned = FALSE

Init ==
    /\ EngineInit
    /\ ports = <<>>
    /\ idx = 0
    /\ adPc = "off"
    /\ adResult = 0
    /\ tried = <<>>
    /\ mode = "off"
    /\ hpc = "off"
    /\ loc = <<>>
    /\ stats = <<>>
    /\ log = <<>>

CallConnect ==
    /\ pc = "idle"
    /\ ser = "None"
    /\ \E o \in ConnectOutcomes : ConnectEffect(port, o, openHandles)
    /\ UNCHANGED <<pc, key, plaintext, callNo, ops, rx_data, result, staleAtClear,
                   serAtEntry, abandoned>>
    /\ UNCHANGED <<adVars, hVars>>

CallDisconnect ==
    /\ pc = "idle"
    /\ DisconnectEffect
    /\ UNCHANGED <<port, pc, key, plaintext, callNo, ops, rx_data, result, staleAtClear,
                   serAtEntry, abandoned>>
    /\ UNCHANGED <<adVars, hVars>>

CallEncrypt ==
    /\ \E rq \in Requests : EncryptEnter(rq[1], rq[2])
    /\ UNCHANGED <<adVars, hVars>>

EngineStep == EncryptSteps /\ UNCHANGED <<adVars, hVars>>

EnvStep == Environment /\ UNCHANGED <<adVars, hVars>>

Next == CallConnect \/ CallDisconnect \/ CallEncrypt \/ EngineStep \/ EnvStep

Spec == Init /\ [][Next]_vars

(***************************************************************************)
(* SpecCodec: the response decoding of encrypt_block (lines 147-156)       *)
(* applied to response frames drawn from sample bytes.                     *)
(***************************************************************************)
ByteSamples == {0, 1, 127, 128, 255}

BlockSamples == {NIST_CT, Fill(16, 255)}

ResponseSamples ==
    {ct \o <<b1, b2, b3, b4>> : ct \in BlockSamples,
                                b1 \in ByteSamples, b2 \in ByteSamples,
                                b3 \in ByteSamples, b4 \in ByteSamples}

CodecInit ==
    /\ ser = "Open"
    /\ port = 1
    /\ openHandles = {1}
    /\ pc = "read"
    /\ key = NIST_KEY
    /\ plaintext = NIST_PT
    /\ callNo = 1
    /\ ops = <<"clear", "write">>
    /\ rx_data = NoBytes
    /\ result = Pending
    /\ devq = <<>>
    /\ wire = NoBytes
    /\ \E f \in ResponseSamples, n \in {RX_FRAME_SIZE - 1, RX_FRAME_SIZE} :
           inbuf = Tagged(Take(f, n), 1)
    /\ staleAtClear = FALSE
    /\ serAtEntry = "Open"
    /\ abandoned = FALSE
    /\ ports = <<>>
    /\ idx = 0
    /\ adPc = "off"
    /\ adResult = 0
    /\ tried = <<>>
    /\ mode = "off"
    /\ hpc = "off"
    /\ loc = <<>>
    /\ stats = <<>>
    /\ log = <<>>

CodecRead == EncryptRead /\ UNCHANGED <<adVars, hVars>>

CodecNext == CodecRead

SpecCodec == CodecInit /\ [][CodecNext]_vars

(***************************************************************************)
(* AESBenchmark.validate_with_nist (lines 158-163), applied to the result  *)
(* of encrypt_block(NIST_KEY, NIST_PT).                                    *)
(***************************************************************************)
ValidateWithNist_AnyResponse(res) == res.tag # "None"
ValidateWithNist(res) ==
    IF res.tag = "None" THEN FALSE ELSE res.ciphertext = NIST_CT

(***************************************************************************)
(* AESBenchmark.auto_detect (lines 172-214).  Each candidate gets a new    *)
(* AESBenchmark object (bench = cls(...)); the previous object, and with   *)
(* it a handle that was opened and never closed, becomes unreachable.      *)
(* Python leaves it to the garbage collector whether and when such a       *)
(* handle is closed: it may happen when the object is dropped (the         *)
(* rebinding of bench, the return), later (GcClose), or never.             *)
(***************************************************************************)
\* where the loop goes after a candidate that failed
AfterCandidateFailure_Return == "done"
AfterCandidateFailure == "loop"

Unreachable ==
    IF adPc = "done" /\ adResult = 0 THEN openHandles ELSE openHandles \ {port}

NewBench ==
    /\ pc' = "idle"
    /\ key' = NoBytes
    /\ plaintext' = NoBytes
    /\ callNo' = 0
    /\ ops' = <<>>
    /\ rx_data' = NoBytes
    /\ result' = NoneResult
    /\ staleAtClear' = FALSE
    /\ serAtEntry' = "None"
    /\ abandoned' = FALSE

\* ports = list_serial_ports(); if not ports: return None
AdBegin ==
    /\ UNCHANGED hVars
    /\ adPc = "start"
    /\ IF ports = <<>>
       THEN adPc' = "done" /\ idx' = 0
       ELSE adPc' = "loop" /\ idx' = 1
    /\ UNCHANGED <<ser, port, openHandles, pc, key, plaintext, callNo, ops, rx_data,
                   result, devq, wire, inbuf, staleAtClear, serAtEntry, abandoned,
                   ports, adResult, tried>>

\* for device, description in ports: bench = cls(...); if not bench.connect(): continue
AdNextCandidate ==
    /\ UNCHANGED hVars
    /\ adPc = "loop"
    /\ idx <= Len(ports)
    /\ \E o \in ConnectOutcomes, collected \in SUBSET openHandles :
        /\ ConnectEffect(ports[idx], o, openHandles \ collected)
        /\ tried' = Append(tried, [port |-> ports[idx], connected |-> ConnectReturns(o),
                                   probes |-> 0, tag |-> "-", matched |-> FALSE])
        /\ IF ConnectReturns(o)
           THEN adPc' = "probe" /\ idx' = idx
           ELSE adPc' = AfterCandidateFailure /\ idx' = idx + 1
    /\ NewBench
    /\ UNCHANGED <<ports, adResult>>

\* the loop is exhausted: return None
AdLoopEnd ==
    /\ UNCHANGED hVars
    /\ adPc = "loop"
    /\ idx > Len(ports)
    /\ adPc' = "done"
    /\ adResult' = 0
    /\ \E collected \in SUBSET openHandles : openHandles' = openHandles \ collected
    /\ UNCHANGED <<ser, port, pc, key, plaintext, callNo, ops, rx_data,
                   result, devq, wire, inbuf, staleAtClear, serAtEntry, abandoned,
                   ports, idx, tried>>

\* bench.validate_with_nist() calls encrypt_block(NIST_KEY, NIST_PT)
AdProbeCall ==
    /\ UNCHANGED hVars
    /\ adPc = "probe"
    /\ EncryptEnter(NIST_KEY, NIST_PT)
    /\ adPc' = "wait"
    /\ tried' = [tried EXCEPT ![idx].probes = @ + 1]
    /\ UNCHANGED <<ports, idx, adResult>>

\* encrypt_block has returned or raised: return bench, or disconnect and go on
AdProbeReturn ==
    /\ UNCHANGED hVars
    /\ adPc = "wait"
    /\ pc = "idle"
    /\ tried' = [tried EXCEPT ![idx].tag = result.tag,
                              ![idx].matched = (result.tag = "Ok" /\ result.ciphertext = NIST_CT)]
    /\ IF result.tag \in {"Ok", "None"} /\ ValidateWithNist(result)
       THEN /\ adResult' = port
            /\ adPc' = "done"
            /\ idx' = idx
            /\ UNCHANGED <<ser, openHandles, devq, wire, inbuf>>
       ELSE /\ DisconnectEffect
            /\ adPc' = AfterCandidateFailure
            /\ idx' = idx + 1
            /\ adResult' = adResult
    /\ UNCHANGED <<port, pc, key, plaintext, callNo, ops, rx_data, result, staleAtClear,
                   serAtEntry, abandoned, ports>>

\* the garbage collector finalizes an unreachable serial object
GcClose ==
    /\ \E h \in Unreachable : openHandles' = openHandles \ {h}
    /\ UNCHANGED <<ser, port, pc, key, plaintext, callNo, ops, rx_data, result, devq,
                   wire, inbuf, staleAtClear, serAtEntry, abandoned>>
    /\ UNCHANGED <<adVars, hVars>>

DetectInit ==
    /\ EngineInit
    /\ \E n \in 0..MaxPorts : ports = [i \in 1..n |-> i]
    /\ idx = 0
    /\ adPc = "start"
    /\ adResult = 0
    /\ tried = <<>>
    /\ mode = "off"
    /\ hpc = "off"
    /\ loc = <<>>
    /\ stats = <<>>
    /\ log = <<>>

DetectNext ==
    \/ AdBegin
    \/ AdNextCandidate
    \/ AdLoopEnd
    \/ AdProbeCall
    \/ AdProbeReturn
    \/ GcClose
    \/ EngineStep
    \/ EnvStep

SpecDetect == DetectInit /\ [][DetectNext]_vars

(***************************************************************************)
(* The benchmark harness (run_random_tests, run_throughput_test,           *)
(* run_latency_test, run_image_test).  Each loop iteration makes one       *)
(* encrypt_block call; the call is taken as a whole here, by its outcome:  *)
(* (None, None), a 16-byte ciphertext with a cycle count, or an exception  *)
(* raised by the transport.  os.urandom(16) draws from sample blocks.      *)
(***************************************************************************)
RandomKeys == {NIST_KEY, Fill(16, 1)}

RandomBlocks == {NIST_PT, Fill(16, 255)}

\* the cycle counts of CycleSamples
CycleCounts == {UnpackU32(c) : c \in CycleSamples}

EncryptBlockOutcomes(s, k, p) ==
    LET c == EntryCheck(s, k, p)
    IN  CASE c = "NotConnected" -> {NoneResult}
          [] c = "ValueError" -> {RaisedResult("ValueError")}
          [] c = "Proceed" ->
                {NoneResult, RaisedResult("SerialException")}
                \cup {[tag |-> "Ok", ciphertext |-> ct, cycle_count |-> cyc] :
                          ct \in {AesEncrypt(k, p), BadBlock}, cyc \in CycleCounts}

Raised_OrNone(res) == res.tag # "Ok"
Raised(res) == res.tag \notin {"Ok", "None"}

\* AESBenchmark.verify_with_software (lines 165-170)
VerifyWithSoftware_Always(k, p, hw) == TRUE
VerifyWithSoftware(k, p, hw) == hw = AesEncrypt(k, p)

(***************************************************************************)
(* Python integers are unbounded: a sum of cycle counts is kept in the     *)
(* same two-halves form, the high half unbounded.  A quotient is kept as   *)
(* the pair [num, den].                                                    *)
(***************************************************************************)
WideAdd(a, b) ==
    [hi |-> a.hi + b.hi + ((a.lo + b.lo) \div 65536), lo |-> (a.lo + b.lo) % 65536]

WideLess(a, b) == a.hi < b.hi \/ (a.hi = b.hi /\ a.lo < b.lo)

RECURSIVE WideSum(_)
WideSum(cs) ==
    IF cs = <<>> THEN U32Zero
    ELSE IF Len(cs) = 1 THEN cs[1]
    ELSE LET h == Len(cs) \div 2
         IN  WideAdd(WideSum(SubSeq(cs, 1, h)), WideSum(SubSeq(cs, h + 1, Len(cs))))

RECURSIVE WideMin(_)
WideMin(cs) ==
    IF Len(cs) = 1 THEN cs[1]
    ELSE LET h == Len(cs) \div 2
             a == WideMin(SubSeq(cs, 1, h))
             b == WideMin(SubSeq(cs, h + 1, Len(cs)))
         IN  IF WideLess(b, a) THEN b ELSE a

RECURSIVE WideMax(_)
WideMax(cs) ==
    IF Len(cs) = 1 THEN cs[1]
    ELSE LET h == Len(cs) \div 2
             a == WideMax(SubSeq(cs, 1, h))
             b == WideMax(SubSeq(cs, h + 1, Len(cs)))
         IN  IF WideLess(a, b) THEN b ELSE a

Quotient(n, d) == [num |-> n, den |-> d]

(***************************************************************************)
(* run_random_tests (lines 248-299).                                       *)
(***************************************************************************)
HarnessConnection ==
    /\ ser \in {"Open", "Closed"}
    /\ port = 1
    /\ openHandles = (IF ser = "Open" THEN {1} ELSE {})
    /\ pc = "idle"
    /\ key = NoBytes
    /\ plaintext = NoBytes
    /\ callNo = 0
    /\ ops = <<>>
    /\ rx_data = NoBytes
    /\ result = NoneResult
    /\ devq = <<>>
    /\ wire = NoBytes
    /\ inbuf = NoBytes
    /\ staleAtClear = FALSE
    /\ serAtEntry = "None"
    /\ abandoned = FALSE
    /\ ports = <<>>
    /\ idx = 0
    /\ adPc = "off"
    /\ adResult = 0
    /\ tried = <<>>

RandomInit ==
    /\ HarnessConnection
    /\ mode = "random"
    /\ hpc = "run"
    /\ \E n \in 0..MaxTests :
           loc = [num_tests |-> n, i |-> 0, passed |-> 0, failed |-> 0,
                  cycle_counts |-> <<>>]
    /\ stats = <<>>
    /\ log = <<>>

\* one iteration of: for i in range(num_tests)
RandomIteration ==
    /\ mode = "random"
    /\ hpc = "run"
    /\ loc.i < loc.num_tests
    /\ \E k \in RandomKeys, p \in RandomBlocks :
         \E r \in EncryptBlockOutcomes(ser, k, p) :
           /\ log' = Append(log, [key |-> k, plaintext |-> p, res |-> r])
           /\ IF Raised(r)
              THEN hpc' = "raised" /\ loc' = loc
              ELSE /\ hpc' = hpc
                   /\ IF r.tag = "None"
                      THEN loc' = [loc EXCEPT !.i = @ + 1, !.failed = @ + 1]
                      ELSE IF VerifyWithSoftware(k, p, r.ciphertext)
                      THEN loc' = [loc EXCEPT !.i = @ + 1, !.passed = @ + 1,
                                              !.cycle_counts = Append(@, r.cycle_count)]
                      ELSE loc' = [loc EXCEPT !.i = @ + 1, !.failed = @ + 1]
    /\ UNCHANGED <<engineVars, adVars, mode, stats>>

RandomStats_NoFailed(l) ==
    [passed |-> l.passed, failed |-> 0, total |-> l.passed,
     pass_rate |-> Quotient(100, 1), cycles |-> <<>>]
\* stats = {...}; if cycle_counts: ...; return stats
RandomStats(l) ==
    [passed |-> l.passed,
     failed |-> l.failed,
     total |-> l.num_tests,
     pass_rate |-> IF l.num_tests > 0 THEN Quotient(l.passed * 100, l.num_tests)
                   ELSE Quotient(0, 1),
     cycles |-> IF l.cycle_counts # <<>>
                THEN <<[min_cycles |-> WideMin(l.cycle_counts),
                        max_cycles |-> WideMax(l.cycle_counts),
                        avg_cycles |-> Quotient(WideSum(l.cycle_counts),
                                                Len(l.cycle_counts))]>>
                ELSE <<>>]

RandomReturn ==
    /\ mode = "random"
    /\ hpc = "run"
    /\ loc.i >= loc.num_tests
    /\ stats' = RandomStats(loc)
    /\ hpc' = "done"
    /\ UNCHANGED <<engineVars, adVars, mode, loc, log>>

RandomNext == RandomIteration \/ RandomReturn

SpecRandom == RandomInit /\ [][RandomNext]_vars

(***************************************************************************)
(* run_latency_test (lines 336-376).  A measured latency                   *)
(* (end - start) * 1000 is a whole number of time units here.              *)
(***************************************************************************)
LatencyTimes == {1, 2}

\* a list left in arrival order
Sort_Skipped(s) == s

\* two ascending lists merged into one, elements of a before equal elements of b
RECURSIVE Merge(_, _)
Merge(a, b) ==
    IF a = <<>> THEN b
    ELSE IF b = <<>> THEN a
    ELSE LET h == (Len(a) + 1) \div 2
             c == Cardinality({j \in 1..Len(b) : b[j] < a[h]})
         IN  Merge(SubSeq(a, 1, h - 1), SubSeq(b, 1, c))
                 \o <<a[h]>>
                 \o Merge(SubSeq(a, h + 1, Len(a)), SubSeq(b, c + 1, Len(b)))

\* list.sort() on numbers: ascending
RECURSIVE Sort(_)
Sort(s) ==
    IF Len(s) <= 1 THEN s
    ELSE LET h == Len(s) \div 2
         IN  Merge(Sort(SubSeq(s, 1, h)), Sort(SubSeq(s, h + 1, Len(s))))

RECURSIVE WideMerge(_, _)
WideMerge(a, b) ==
    IF a = <<>> THEN b
    ELSE IF b = <<>> THEN a
    ELSE LET h == (Len(a) + 1) \div 2
             c == Cardinality({j \in 1..Len(b) : WideLess(b[j], a[h])})
         IN  WideMerge(SubSeq(a, 1, h - 1), SubSeq(b, 1, c))
                 \o <<a[h]>>
                 \o WideMerge(SubSeq(a, h + 1, Len(a)), SubSeq(b, c + 1, Len(b)))

RECURSIVE WideSort(_)
WideSort(s) ==
    IF Len(s) <= 1 THEN s
    ELSE LET h == Len(s) \div 2
         IN  WideMerge(WideSort(SubSeq(s, 1, h)), WideSort(SubSeq(s, h + 1, Len(s))))

RECURSIVE Sum(_)
Sum(s) ==
    IF s = <<>> THEN 0
    ELSE IF Len(s) = 1 THEN s[1]
    ELSE LET h == Len(s) \div 2
         IN  Sum(SubSeq(s, 1, h)) + Sum(SubSeq(s, h + 1, Len(s)))

RECURSIVE Min(_)
Min(s) ==
    IF Len(s) = 1 THEN s[1]
    ELSE LET h == Len(s) \div 2
             a == Min(SubSeq(s, 1, h))
             b == Min(SubSeq(s, h + 1, Len(s)))
         IN  IF b < a THEN b ELSE a

RECURSIVE Max(_)
Max(s) ==
    IF Len(s) = 1 THEN s[1]
    ELSE LET h == Len(s) \div 2
             a == Max(SubSeq(s, 1, h))
             b == Max(SubSeq(s, h + 1, Len(s)))
         IN  IF b > a THEN b ELSE a

\* zero-based list index: s[i] in the source is At(s, i) here
At(s, i) == s[i + 1]

\* int(n * 0.95) and int(n * 0.99): the float product truncated, which is
\* floor(n * 95 / 100) and floor(n * 99 / 100) for every list length up to 200000
PercentIndex(n, pct) == (n * pct) \div 100

\* the statistics with the lower-middle element as the median
LatencyStats_LowerMedian(lats, cycs) ==
    IF lats = <<>>
    THEN [error |-> "No successful measurements"]
    ELSE LET latencies == Sort(lats)
             hw_cycles == WideSort(cycs)
         IN  [samples |-> Len(latencies),
              min_latency_ms |-> Min(latencies),
              max_latency_ms |-> Max(latencies),
              avg_latency_ms |-> Quotient(Sum(latencies), Len(latencies)),
              median_latency_ms |-> At(latencies, (Len(latencies) - 1) \div 2),
              p95_latency_ms |-> At(latencies, PercentIndex(Len(latencies), 95)),
              p99_latency_ms |-> At(latencies, PercentIndex(Len(latencies), 99)),
              min_hw_cycles |-> WideMin(hw_cycles),
              max_hw_cycles |-> WideMax(hw_cycles),
              avg_hw_cycles |-> Quotient(WideSum(hw_cycles), Len(hw_cycles))]

\* lines 357-374, from the two lists as collected
LatencyStats(lats, cycs) ==
    IF lats = <<>>
    THEN [error |-> "No successful measurements"]
    ELSE LET latencies == Sort(lats)
             hw_cycles == WideSort(cycs)
         IN  [samples |-> Len(latencies),
              min_latency_ms |-> Min(latencies),
              max_latency_ms |-> Max(latencies),
              avg_latency_ms |-> Quotient(Sum(latencies), Len(latencies)),
              median_latency_ms |-> At(latencies, Len(latencies) \div 2),
              p95_latency_ms |-> At(latencies, PercentIndex(Len(latencies), 95)),
              p99_latency_ms |-> At(latencies, PercentIndex(Len(latencies), 99)),
              min_hw_cycles |-> WideMin(hw_cycles),
              max_hw_cycles |-> WideMax(hw_cycles),
              avg_hw_cycles |-> Quotient(WideSum(hw_cycles), Len(hw_cycles))]

LatencyInit ==
    /\ HarnessConnection
    /\ mode = "latency"
    /\ hpc = "run"
    /\ \E n \in 0..MaxSamples, k \in RandomKeys :
           loc = [num_samples |-> n, i |-> 0, key |-> k,
                  latencies |-> <<>>, hw_cycles |-> <<>>]
    /\ stats = <<>>
    /\ log = <<>>

\* one iteration of: for _ in range(num_samples)
LatencyIteration ==
    /\ mode = "latency"
    /\ hpc = "run"
    /\ loc.i < loc.num_samples
    /\ \E p \in RandomBlocks, t \in LatencyTimes :
         \E r \in EncryptBlockOutcomes(ser, loc.key, p) :
           /\ log' = Append(log, [key |-> loc.key, plaintext |-> p, res |-> r])
           /\ IF Raised(r)
              THEN hpc' = "raised" /\ loc' = loc
              ELSE /\ hpc' = hpc
                   /\ IF r.tag # "None"
                      THEN loc' = [loc EXCEPT !.i = @ + 1,
                                              !.latencies = Append(@, t),
                                              !.hw_cycles = Append(@, r.cycle_count)]
                      ELSE loc' = [loc EXCEPT !.i = @ + 1]
    /\ UNCHANGED <<engineVars, adVars, mode, stats>>

LatencyReturn ==
    /\ mode = "latency"
    /\ hpc = "run"
    /\ loc.i >= loc.num_samples
    /\ stats' = LatencyStats(loc.latencies, loc.hw_cycles)
    /\ hpc' = "done"
    /\ UNCHANGED <<engineVars, adVars, mode, loc, log>>

LatencyNext == LatencyIteration \/ LatencyReturn

SpecLatency == LatencyInit /\ [][LatencyNext]_vars

(***************************************************************************)
(* run_image_test (lines 379-536).  The image is RGB: img.tobytes() is     *)
(* three bytes per pixel.  AES.new(key, MODE_ECB) encrypts and decrypts a  *)
(* buffer block by block.                                                  *)
(***************************************************************************)
PixelSeeds == {0, 200}

\* img.tobytes() of an image of npix pixels
ImageBytes(npix, seed) == [j \in 1..(3 * npix) |-> (seed + 7 * j) % 256]

AesDecrypt(k, c) == [i \in 1..BLOCK_SIZE |-> (c[i] + 256 - KeyStream(k)[i]) % 256]

\* an image whose 16-byte blocks are the plaintext that the key Fill(16, 1)
\* encrypts to 16 zero bytes
ZeroCipherImage(npix) ==
    [j \in 1..(3 * npix) |-> AesDecrypt(Fill(16, 1), Fill(16, 0))[((j - 1) % 16) + 1]]

Images ==
    {ImageBytes(npix, seed) : npix \in 1..MaxPixels, seed \in PixelSeeds}
    \cup {ZeroCipherImage(npix) : npix \in 1..MaxPixels}

\* the first block whatever the index
BlockAt_First(data, i) == SubSeq(data, 1, 16)
\* pixels[i*16:(i+1)*16]
BlockAt(data, i) == SubSeq(data, i * 16 + 1, (i + 1) * 16)

RECURSIVE EcbEncrypt(_, _)
EcbEncrypt(k, data) ==
    IF data = <<>> THEN <<>>
    ELSE AesEncrypt(k, Take(data, 16)) \o EcbEncrypt(k, Drop(data, 16))

RECURSIVE EcbDecrypt(_, _)
EcbDecrypt(k, data) ==
    IF data = <<>> THEN <<>>
    ELSE AesDecrypt(k, Take(data, 16)) \o EcbDecrypt(k, Drop(data, 16))

\* lines 420-422, without the test for a length that is already a multiple of 16
PadPixels_AlwaysPad(pixels) == pixels \o Fill(16 - (Len(pixels) % 16), 0)
\* lines 420-422
PadPixels(pixels) ==
    IF Len(pixels) % 16 # 0
    THEN pixels \o Fill(16 - (Len(pixels) % 16), 0)
    ELSE pixels

Placeholder_Empty == <<>>
\* bytes([0] * 16)
Placeholder == Fill(16, 0)

ImageInit ==
    /\ HarnessConnection
    /\ mode = "image"
    /\ hpc = "load"
    /\ loc = <<>>
    /\ stats = <<>>
    /\ log = <<>>

\* lines 387-416: no PIL, no such file, or the image cannot be loaded
ImageLoadFail ==
    /\ mode = "image"
    /\ hpc = "load"
    /\ hpc' = "rejected"
    /\ stats' = [match |-> FALSE]
    /\ UNCHANGED <<engineVars, adVars, mode, loc, log>>

\* lines 399-445: load, pad, split, draw the key, encrypt in software
ImagePrepare ==
    /\ mode = "image"
    /\ hpc = "load"
    /\ \E raw \in Images, k \in RandomKeys :
         LET pixels == PadPixels(raw)
         IN  loc' = [raw |-> raw,
                     original_len |-> Len(raw),
                     pixels |-> pixels,
                     num_blocks |-> Len(pixels) \div 16,
                     key |-> k,
                     sw_ciphertext |-> EcbEncrypt(k, pixels),
                     hw_ciphertext |-> <<>>,
                     hw_cycles_list |-> <<>>,
                     errors |-> 0,
                     i |-> 0]
    /\ hpc' = "run"
    /\ UNCHANGED <<engineVars, adVars, mode, stats, log>>

\* one iteration of: for i in range(num_blocks)
ImageIteration ==
    /\ mode = "image"
    /\ hpc = "run"
    /\ loc.i < loc.num_blocks
    /\ LET block == BlockAt(loc.pixels, loc.i)
       IN  \E r \in EncryptBlockOutcomes(ser, loc.key, block) :
             /\ log' = Append(log, [key |-> loc.key, plaintext |-> block, res |-> r])
             /\ IF Raised(r)
                THEN hpc' = "raised" /\ loc' = loc
                ELSE /\ hpc' = hpc
                     /\ IF r.tag = "None"
                        THEN loc' = [loc EXCEPT !.i = @ + 1,
                                                !.errors = @ + 1,
                                                !.hw_ciphertext = @ \o Placeholder]
                        ELSE loc' = [loc EXCEPT !.i = @ + 1,
                                                !.hw_ciphertext = @ \o r.ciphertext,
                                                !.hw_cycles_list = Append(@, r.cycle_count)]
    /\ UNCHANGED <<engineVars, adVars, mode, stats>>

\* lines 485-497 and 521-534
ImageMatch(l) ==
    /\ l.hw_ciphertext = l.sw_ciphertext
    /\ Take(EcbDecrypt(l.key, l.hw_ciphertext), l.original_len)
           = Take(l.pixels, l.original_len)

ImageFinish ==
    /\ mode = "image"
    /\ hpc = "run"
    /\ loc.i >= loc.num_blocks
    /\ stats' = [match |-> ImageMatch(loc),
                 decrypted |-> Take(EcbDecrypt(loc.key, loc.hw_ciphertext),
                                    loc.original_len)]
    /\ hpc' = "done"
    /\ UNCHANGED <<engineVars, adVars, mode, loc, log>>

ImageNext == ImageLoadFail \/ ImagePrepare \/ ImageIteration \/ ImageFinish

SpecImage == ImageInit /\ [][ImageNext]_vars

(***************************************************************************)
(* run_throughput_test (lines 302-333).  Clock readings are whole ticks    *)
(* since start_time; loc.now is the reading of the last loop test.  A      *)
(* round trip takes a positive, bounded number of ticks; the statements    *)
(* between two clock readings may take none.                               *)
(***************************************************************************)
TripTimes == {1, 2}

ThroughputInit ==
    /\ HarnessConnection
    /\ mode = "throughput"
    /\ hpc = "run"
    /\ \E d \in 0..MaxDuration, k \in RandomKeys :
           loc = [duration_sec |-> d, now |-> 0, key |-> k,
                  blocks_encrypted |-> 0, total_cycles |-> U32Zero]
    /\ stats = <<>>
    /\ log = <<>>

\* the loop test: while (time.time() - start_time) < duration_sec
ThroughputLoopTest(l) == l.now < l.duration_sec

ThroughputIteration ==
    /\ mode = "throughput"
    /\ hpc = "run"
    /\ ThroughputLoopTest(loc)
    /\ \E p \in RandomBlocks, t \in TripTimes :
         \E r \in EncryptBlockOutcomes(ser, loc.key, p) :
           /\ log' = Append(log, [key |-> loc.key, plaintext |-> p, res |-> r,
                                  at |-> loc.now])
           /\ IF Raised(r)
              THEN hpc' = "raised" /\ loc' = loc
              ELSE /\ hpc' = hpc
                   /\ IF r.tag # "None"
                      THEN loc' = [loc EXCEPT !.now = @ + t,
                                              !.blocks_encrypted = @ + 1,
                                              !.total_cycles = WideAdd(@, r.cycle_count)]
                      ELSE loc' = [loc EXCEPT !.now = @ + t]
    /\ UNCHANGED <<engineVars, adVars, mode, stats>>

\* lines 324-331
ThroughputStats(l, elapsed) ==
    [blocks |-> l.blocks_encrypted,
     elapsed_sec |-> elapsed,
     blocks_per_sec |-> Quotient(l.blocks_encrypted, elapsed),
     bytes_per_sec |-> Quotient(l.blocks_encrypted * 16, elapsed),
     kbps |-> Quotient(l.blocks_encrypted * 16 * 8, elapsed * 1000),
     avg_cycles |-> IF l.blocks_encrypted > 0
                    THEN Quotient(l.total_cycles, l.blocks_encrypted)
                    ELSE Quotient(U32Zero, 1)]

\* lines 322-333; a division by an elapsed time of zero raises ZeroDivisionError
ThroughputReturn ==
    /\ mode = "throughput"
    /\ hpc = "run"
    /\ ~ThroughputLoopTest(loc)
    /\ \E e \in {0, 1} :
         LET elapsed == loc.now + e
         IN  IF elapsed = 0
             THEN hpc' = "raised" /\ stats' = stats
             ELSE hpc' = "done" /\ stats' = ThroughputStats(loc, elapsed)
    /\ UNCHANGED <<engineVars, adVars, mode, loc, log>>

ThroughputNext == ThroughputIteration \/ ThroughputReturn

SpecThroughput ==
    ThroughputInit /\ [][ThroughputNext]_vars /\ WF_vars(ThroughputNext)

(***************************************************************************)
(* The statistics of run_latency_test on its own (lines 357-374), applied  *)
(* to lists of successful samples as the loop can leave them: every        *)
(* arrival order of 1..n for small n, orders of 1..10, and longer lists    *)
(* (descending, with repeated values, constant) up to MaxLen samples.      *)
(***************************************************************************)
Orders(n) == {f \in [1..n -> 1..n] : \A a, b \in 1..n : f[a] = f[b] => a = b}

Swapped(n, a, b) == [j \in 1..n |-> IF j = a THEN b ELSE IF j = b THEN a ELSE j]

OrdersOfTen ==
    {[j \in 1..10 |-> ((a * j + b) % 10) + 1] : a \in {1, 3, 7, 9}, b \in 0..9}
    \cup {[j \in 1..10 |-> (a * j) % 11] : a \in 1..10}
    \cup {Swapped(10, a, b) : a, b \in 1..10}

LongLists ==
    {[j \in 1..n |-> n + 1 - j] : n \in 1..MaxLen}
    \cup {[j \in 1..n |-> (j * 7) % 5] : n \in 1..MaxLen}
    \cup {[j \in 1..n |-> 4] : n \in 1..MaxLen}

LatencyLists == UNION {Orders(n) : n \in 1..MaxPerm} \cup OrdersOfTen \cup LongLists

\* one cycle count per latency sample
CyclesFor(l) ==
    [j \in 1..Len(l) |-> IF l[j] % 2 = 0 THEN UnpackU32(<<44, 1, 0, 0>>)
                         ELSE UnpackU32(<<252, 253, 254, 255>>)]

StatsInit ==
    /\ HarnessConnection
    /\ mode = "stats"
    /\ hpc = "run"
    /\ \E l \in LatencyLists :
           loc = [latencies |-> l, hw_cycles |-> CyclesFor(l)]
    /\ stats = <<>>
    /\ log = <<>>

StatsCompute ==
    /\ mode = "stats"
    /\ hpc = "run"
    /\ stats' = LatencyStats(loc.latencies, loc.hw_cycles)
    /\ hpc' = "done"
    /\ UNCHANGED <<engineVars, adVars, mode, loc, log>>

SpecStats == StatsInit /\ [][StatsCompute]_vars

(***************************************************************************)
(* Any one of the four tests, run on a connection that is open or not.     *)
(***************************************************************************)
HarnessInit == RandomInit \/ ThroughputInit \/ LatencyInit \/ ImageInit

HarnessNext == RandomNext \/ ThroughputNext \/ LatencyNext \/ ImageNext

SpecHarness == HarnessInit /\ [][HarnessNext]_vars

(***************************************************************************)
(* main (lines 550-681).  The connection comes from auto_detect, modelled  *)
(* step by step as above, or from connect() on the port given on the       *)
(* command line.  The tests then run in order inside try/finally.  A test  *)
(* touches the connection only through encrypt_block, which leaves         *)
(* self.ser as it is, so a test is one step here, taken by its outcome:    *)
(* skipped, returned (passed or failed), or left by an exception.          *)
(***************************************************************************)
Tests == <<"nist", "random", "throughput", "latency", "image">>

\* what a test can do to main: the throughput and latency results never change
\* all_passed
TestOutcomes(t) ==
    IF t \in {3, 4}
    THEN {"skipped", "returned", "raised"}
    ELSE {"skipped", "passed", "failed", "raised"}

\* try: ... finally: bench.disconnect() runs the disconnect however the try is left
RunsFinally_OnlyOnReturn(raised) == ~raised
RunsFinally(raised) == TRUE

MainInit ==
    /\ EngineInit
    /\ \E n \in 0..MaxPorts : ports = [i \in 1..n |-> i]
    /\ idx = 0
    /\ adPc = "off"
    /\ adResult = 0
    /\ tried = <<>>
    /\ mode = "main"
    /\ hpc = "start"
    /\ loc = [connected |-> FALSE, step |-> 0, all_passed |-> TRUE, raised |-> FALSE,
              code |-> -1]
    /\ stats = <<>>
    /\ log = <<>>

\* --list-ports: print the ports and return 0
MainListPorts ==
    /\ mode = "main"
    /\ hpc = "start"
    /\ hpc' = "exit"
    /\ loc' = [loc EXCEPT !.code = 0]
    /\ UNCHANGED <<engineVars, adVars, mode, stats, log>>

\* bench = AESBenchmark.auto_detect(args.baud)
MainAutoDetect ==
    /\ mode = "main"
    /\ hpc = "start"
    /\ hpc' = "detect"
    /\ adPc' = "start"
    /\ UNCHANGED <<engineVars, ports, idx, adResult, tried, mode, loc, stats, log>>

\* if bench is None: return 1
MainAfterDetect ==
    /\ mode = "main"
    /\ hpc = "detect"
    /\ adPc = "done"
    /\ IF adResult = 0
       THEN hpc' = "exit" /\ loc' = [loc EXCEPT !.code = 1]
       ELSE hpc' = "try" /\ loc' = [loc EXCEPT !.connected = TRUE, !.step = 1]
    /\ adPc' = "returned"
    /\ UNCHANGED <<engineVars, ports, idx, adResult, tried, mode, stats, log>>

\* bench = AESBenchmark(args.port, args.baud); if not bench.connect(): return 1
MainConnect ==
    /\ mode = "main"
    /\ hpc = "start"
    /\ \E o \in ConnectOutcomes :
         /\ ConnectEffect(1, o, openHandles)
         /\ IF ConnectReturns(o)
            THEN hpc' = "try" /\ loc' = [loc EXCEPT !.connected = TRUE, !.step = 1]
            ELSE hpc' = "exit" /\ loc' = [loc EXCEPT !.code = 1]
    /\ UNCHANGED <<pc, key, plaintext, callNo, ops, rx_data, result, staleAtClear,
                   serAtEntry, abandoned, adVars, mode, stats, log>>

\* one of the five tests inside the try block
MainTest ==
    /\ mode = "main"
    /\ hpc = "try"
    /\ loc.step \in 1..Len(Tests)
    /\ \E o \in TestOutcomes(loc.step) :
         IF o = "raised"
         THEN hpc' = "finally" /\ loc' = [loc EXCEPT !.raised = TRUE]
         ELSE /\ hpc' = hpc
              /\ loc' = [loc EXCEPT !.step = @ + 1,
                                    !.all_passed = @ /\ o # "failed"]
    /\ UNCHANGED <<engineVars, adVars, mode, stats, log>>

\* return 0 if all_passed else 1
MainSummary ==
    /\ mode = "main"
    /\ hpc = "try"
    /\ loc.step > Len(Tests)
    /\ hpc' = "finally"
    /\ loc' = [loc EXCEPT !.code = IF loc.all_passed THEN 0 ELSE 1]
    /\ UNCHANGED <<engineVars, adVars, mode, stats, log>>

\* finally: bench.disconnect()
MainFinally ==
    /\ mode = "main"
    /\ hpc = "finally"
    /\ IF RunsFinally(loc.raised)
       THEN DisconnectEffect
       ELSE UNCHANGED <<ser, openHandles, devq, wire, inbuf>>
    /\ hpc' = "exit"
    /\ UNCHANGED <<port, pc, key, plaintext, callNo, ops, rx_data, result, staleAtClear,
                   serAtEntry, abandoned, adVars, mode, loc, stats, log>>

\* bench.disconnect() called once more on the connection that main has closed
MainDisconnectAgain ==
    /\ mode = "main"
    /\ hpc = "exit"
    /\ loc.connected
    /\ DisconnectEffect
    /\ hpc' = "again"
    /\ UNCHANGED <<port, pc, key, plaintext, callNo, ops, rx_data, result, staleAtClear,
                   serAtEntry, abandoned, adVars, mode, loc, stats, log>>

MainDetectStep ==
    /\ hpc = "detect"
    /\ AdBegin \/ AdNextCandidate \/ AdLoopEnd \/ AdProbeCall \/ AdProbeReturn
          \/ EngineStep \/ EnvStep

MainNext ==
    \/ MainListPorts
    \/ MainAutoDetect
    \/ MainDetectStep
    \/ MainAfterDetect
    \/ MainConnect
    \/ MainTest
    \/ MainSummary
    \/ MainFinally
    \/ MainDisconnectAgain
    \/ GcClose

SpecMain == MainInit /\ [][MainNext]_vars

(***************************************************************************)
(* Properties of encrypt_block.                                            *)
(***************************************************************************)
IsPrefix(s, t) == Len(s) <= Len(t) /\ \A i \in 1..Len(s) : s[i] = t[i]

HasRead == \E i \in 1..Len(ops) : ops[i] = "read"

ValidArgs == Len(key) = 16 /\ Len(plaintext) = 16

\* rx_data is, byte for byte, the answer the accelerator gave to request r
Aligned(rx, r) == \A i \in 1..Len(rx) : rx[i].req = r /\ rx[i].pos = i

\* C1: a read of fewer than 20 bytes makes the call return (None, None); a
\* ciphertext and a cycle count are produced only from a read of exactly 20 bytes.
C1_ShortReadFails ==
    /\ (pc = "idle" /\ HasRead /\ Len(rx_data) < 20) => result = NoneResult
    /\ result.tag = "Ok" => Len(rx_data) = 20

C1_Witness ==
    /\ pc = "idle"
    /\ ops = <<"clear", "write", "read">>
    /\ Len(rx_data) = 19
    /\ result = NoneResult

\* C2 (as claimed): every successful call returns the frame the accelerator
\* produced for that same request, whatever happened to earlier round trips.
C2_AlwaysAligned == result.tag = "Ok" => Aligned(rx_data, callNo)

\* C2 (amended): a successful call returns the frame produced for its own request
\* provided no earlier request was still unanswered or had response bytes in
\* flight when the call cleared the input buffer.
C2_AlignedWhenNothingOutstanding ==
    (result.tag = "Ok" /\ ~staleAtClear) => Aligned(rx_data, callNo)

C2_Witness ==
    /\ result.tag = "Ok"
    /\ abandoned
    /\ ~staleAtClear
    /\ callNo = 2
    /\ Aligned(rx_data, callNo)

\* C3: a call that passes the entry checks performs the clear, the write and the
\* read once each and in that order, whatever the read returns; no call ever
\* performs a second clear, write or read.
C3_OneClearWriteRead ==
    /\ IsPrefix(ops, <<"clear", "write", "read">>)
    /\ (pc = "idle" /\ callNo > 0 /\ serAtEntry = "Open" /\ ValidArgs
            /\ result.tag \in {"Ok", "None"})
        => ops = <<"clear", "write", "read">>

C3_Witness ==
    /\ pc = "idle"
    /\ result = NoneResult
    /\ ops = <<"clear", "write", "read">>
    /\ rx_data # NoBytes
    /\ Len(rx_data) < 20

\* C4 (as claimed): a key or plaintext that is not 16 bytes long makes the call
\* fail with ValueError in every connection state, with no transport operation.
C4_ValueErrorInEveryState ==
    (callNo > 0 /\ ~ValidArgs) => (pc = "idle" /\ result.tag = "ValueError" /\ ops = <<>>)

\* C4 (amended): on an open connection a key or plaintext that is not 16 bytes
\* long makes the call fail with ValueError; on a connection that was never opened
\* or is closed the call returns (None, None) whatever the lengths; in both cases
\* no transport operation is performed.
C4_ValueErrorWhenOpen ==
    (callNo > 0 /\ ~ValidArgs) =>
        /\ pc = "idle"
        /\ ops = <<>>
        /\ rx_data = NoBytes
        /\ devq = <<>> \/ devq[Len(devq)].req # callNo
        /\ serAtEntry = "Open" => result.tag = "ValueError"
        /\ serAtEntry # "Open" => result = NoneResult

C4_Witness ==
    /\ callNo > 0
    /\ serAtEntry = "Open"
    /\ Len(key) = 16
    /\ Len(plaintext) = 17
    /\ result.tag = "ValueError"

\* C5: a call on a connection that was never opened or has been closed returns
\* (None, None) at once, without clearing, writing or reading.
C5_NotConnected ==
    (callNo > 0 /\ serAtEntry # "Open") =>
        /\ pc = "idle"
        /\ result = NoneResult
        /\ ops = <<>>
        /\ rx_data = NoBytes

C5_Witness ==
    /\ callNo > 0
    /\ serAtEntry = "Closed"
    /\ ValidArgs
    /\ result = NoneResult

\* C9: the request written for a 16-byte key and plaintext is 34 bytes: the key,
\* then the plaintext, then 0xFF 0xFF, every byte as given.
C9_RequestLayout ==
    \A n \in 1..Len(devq) :
        LET f == devq[n].frame
        IN  /\ Len(f) = 34
            /\ f[33] = 255 /\ f[34] = 255
            /\ devq[n].req = callNo =>
                   \A j \in 1..16 : f[j] = key[j] /\ f[16 + j] = plaintext[j]

C9_Witness ==
    /\ devq # <<>>
    /\ devq[Len(devq)].req = callNo
    /\ key = NIST_KEY
    /\ devq[Len(devq)].frame = NIST_KEY \o NIST_PT \o <<255, 255>>

\* C10: a 20-byte response decodes to its first 16 bytes, unchanged, as the
\* ciphertext and to b16 + 256*b17 + 65536*b18 + 16777216*b19 as the cycle count
\* (so 0 <= cycle_count < 2^32): the low half is b16 + 256*b17, the high half
\* b18 + 256*b19.
C10_ResponseDecoding ==
    (pc = "idle" /\ Len(rx_data) = 20) =>
        /\ result.tag = "Ok"
        /\ Len(result.ciphertext) = 16
        /\ \A i \in 1..16 : result.ciphertext[i] = rx_data[i].v
        /\ LET c == result.cycle_count
           IN  /\ c.lo \in 0..65535
               /\ c.hi \in 0..65535
               /\ c.lo % 256 = rx_data[17].v
               /\ c.lo \div 256 = rx_data[18].v
               /\ c.hi % 256 = rx_data[19].v
               /\ c.hi \div 256 = rx_data[20].v

C10_Witness ==
    /\ pc = "idle"
    /\ result.tag = "Ok"
    /\ result.ciphertext = NIST_CT
    /\ Values(Drop(rx_data, 16)) = <<1, 0, 128, 255>>
    /\ result.cycle_count = [hi |-> 65408, lo |-> 1]

(***************************************************************************)
(* Properties of auto_detect.                                              *)
(***************************************************************************)
Done == adPc = "done"

Answered(t) == t.connected /\ t.matched

\* the candidates are taken in enumeration order, none skipped
TriedInOrder ==
    /\ Len(tried) <= Len(ports)
    /\ \A j \in 1..Len(tried) : tried[j].port = ports[j]

\* C6: the port auto_detect returns is the first candidate, in enumeration order,
\* whose connect succeeded and whose one probe returned NIST_CT; its connection is
\* open on return and no later candidate has been opened or probed.
C6_FirstMatchWins ==
    (Done /\ adResult # 0) =>
        LET w == Len(tried)
        IN  /\ TriedInOrder
            /\ w >= 1
            /\ tried[w].port = adResult
            /\ Answered(tried[w])
            /\ tried[w].probes = 1
            /\ \A j \in 1..(w - 1) : ~Answered(tried[j])
            /\ port = adResult
            /\ ser = "Open"
            /\ adResult \in openHandles
            /\ \A j \in (w + 1)..Len(ports) : ports[j] \notin openHandles

C6_Witness ==
    /\ Done
    /\ Len(ports) = 3
    /\ adResult = ports[2]
    /\ Len(tried) = 2
    /\ tried[1].connected /\ tried[1].tag = "Ok" /\ ~tried[1].matched
    /\ ser = "Open"

\* C7 (as claimed): at most one connection is open at any time, the only
\* connection open when auto_detect returns a port is that port's, and none is
\* open when it returns None.
C7_OthersClosed ==
    /\ Cardinality(openHandles) <= 1
    /\ (Done /\ adResult = 0) => openHandles = {}
    /\ (Done /\ adResult # 0) => openHandles = {adResult}

\* C8: a candidate that fails does not end the scan: candidates are tried in
\* order, each candidate whose connect succeeded is probed with exactly one round
\* trip (the others with none), and auto_detect returns None exactly when no
\* candidate both connected and answered NIST_CT, every candidate having been tried.
C8_FailuresAreNotFatal ==
    /\ TriedInOrder
    /\ \A j \in 1..Len(tried) :
           (j < Len(tried) \/ Done) =>
               tried[j].probes = (IF tried[j].connected THEN 1 ELSE 0)
    /\ \A j \in 1..Len(tried) : tried[j].probes <= 1
    /\ Done =>
        /\ (adResult = 0) <=> ~(\E j \in 1..Len(tried) : Answered(tried[j]))
        /\ adResult = 0 => Len(tried) = Len(ports)

C8_Witness ==
    /\ Done
    /\ adResult = 0
    /\ Len(ports) = 3
    /\ Len(tried) = 3
    /\ ~tried[1].connected
    /\ tried[2].tag = "SerialException"
    /\ tried[3].tag = "None"

(***************************************************************************)
(* Properties of the benchmark harness.                                    *)
(***************************************************************************)
\* a logged round trip whose ciphertext is the reference ciphertext
LogPass(e) == e.res.tag = "Ok" /\ e.res.ciphertext = AesEncrypt(e.key, e.plaintext)

LogReturned(e) == e.res.tag \in {"Ok", "None"}

LogOk(e) == e.res.tag = "Ok"

LogNone(e) == e.res.tag = "None"

CyclesOf(es) == [j \in 1..Len(es) |-> es[j].res.cycle_count]

\* C11: every iteration of random validation that returned is counted once, as
\* passed exactly when its ciphertext is the reference ciphertext and as failed
\* otherwise; the cycle samples are those of the passed iterations, in order; on
\* return passed + failed = total = N and pass_rate = passed / N * 100 (0 for N = 0).
C11_RandomCounts ==
    mode = "random" =>
        /\ loc.passed = Len(SelectSeq(log, LogPass))
        /\ loc.passed + loc.failed = Len(SelectSeq(log, LogReturned))
        /\ loc.passed + loc.failed = loc.i
        /\ loc.cycle_counts = CyclesOf(SelectSeq(log, LogPass))
        /\ hpc = "done" =>
            /\ stats.passed = loc.passed /\ stats.failed = loc.failed
            /\ stats.passed + stats.failed = stats.total
            /\ stats.total = loc.num_tests
            /\ Len(log) = loc.num_tests
            /\ IF stats.total = 0
               THEN stats.pass_rate.num = 0
               ELSE stats.pass_rate.num * stats.total
                        = stats.passed * 100 * stats.pass_rate.den

C11_Witness ==
    /\ mode = "random"
    /\ hpc = "done"
    /\ stats.total = 3
    /\ stats.passed = 1
    /\ stats.failed = 2
    /\ Len(loc.cycle_counts) = 1
    /\ \E j \in 1..3 : log[j].res.tag = "None"
    /\ \E j \in 1..3 : LogOk(log[j]) /\ ~LogPass(log[j])

\* the number of round trips a batch is asked for
BatchSize ==
    CASE mode = "random" -> loc.num_tests
      [] mode = "latency" -> loc.num_samples
      [] mode = "image" -> loc.num_blocks

Batching == mode \in {"random", "latency", "image"} /\ hpc \in {"run", "done", "raised"}

\* C12: in random validation, the latency test and the bulk test a round trip
\* that fails (returns no response) never ends the batch: the batch is left
\* early only by an exception, it returns after exactly N / M / B round trips,
\* iteration j makes the j-th round trip and no other (no retry), and every
\* failure is accounted once: in failed (random), in errors (bulk), as one
\* sample missing from the latency lists.
C12_BatchRunsToTheEnd ==
    Batching =>
        /\ hpc = "raised" => ~LogReturned(log[Len(log)])
        /\ hpc # "raised" => Len(log) = loc.i
        /\ hpc = "done" => Len(log) = BatchSize
        /\ \A j \in 1..Len(log) : j < Len(log) => LogReturned(log[j])
        /\ mode = "random" =>
               loc.failed = Len(SelectSeq(log, LogNone))
                              + Len(SelectSeq(log, LogOk)) - Len(SelectSeq(log, LogPass))
        /\ mode = "latency" =>
               /\ Len(loc.latencies) = Len(SelectSeq(log, LogReturned))
                                         - Len(SelectSeq(log, LogNone))
               /\ Len(loc.hw_cycles) = Len(loc.latencies)
        /\ mode = "image" =>
               /\ loc.errors = Len(SelectSeq(log, LogNone))
               /\ \A j \in 1..Len(log) : log[j].plaintext = BlockAt(loc.pixels, j - 1)

C12_Witness ==
    /\ mode = "image"
    /\ hpc = "done"
    /\ loc.num_blocks = 3
    /\ LogNone(log[1])
    /\ LogOk(log[2])
    /\ LogNone(log[3])
    /\ loc.errors = 2

\* C13 as stated: every returned result is a statistics record whose count
\* covers every round trip made, the failed ones included.
C13_CountsIncludeFailures ==
    hpc = "done" =>
        /\ mode = "random" => stats.total = Len(log)
        /\ mode = "throughput" => stats.blocks = Len(log)
        /\ mode = "latency" => "samples" \in DOMAIN stats /\ stats.samples = Len(log)

\* C13: for any mix of successful and failed round trips a test that returns
\* returns its result: random validation the counts passed, failed and total,
\* failures included; the throughput test a record whose block count is the
\* number of successful round trips (0, with mean 0, when all fail); the latency
\* test a record over the successful samples only, and the record
\* {error: "No successful measurements"} when every round trip fails.
C13_ResultPerMode ==
    hpc = "done" =>
        /\ mode = "random" =>
               /\ stats.total = Len(log)
               /\ stats.failed = Len(log) - Len(SelectSeq(log, LogPass))
               /\ stats.passed = Len(SelectSeq(log, LogPass))
        /\ mode = "throughput" =>
               /\ stats.blocks = Len(SelectSeq(log, LogOk))
               /\ stats.blocks = 0 => stats.avg_cycles = [num |-> U32Zero, den |-> 1]
        /\ mode = "latency" =>
               IF SelectSeq(log, LogOk) = <<>>
               THEN stats = [error |-> "No successful measurements"]
               ELSE stats.samples = Len(SelectSeq(log, LogOk))
        /\ mode = "image" => stats.match \in BOOLEAN

C13_Witness ==
    /\ mode = "latency"
    /\ hpc = "done"
    /\ Len(log) = 3
    /\ \A j \in 1..3 : LogNone(log[j])
    /\ stats = [error |-> "No successful measurements"]

\* v is the element at zero-based position i of the ascending arrangement of l
IsOrderStatistic(l, v, i) ==
    /\ Cardinality({j \in 1..Len(l) : l[j] < v}) <= i
    /\ Cardinality({j \in 1..Len(l) : l[j] <= v}) > i

\* C14: for a non-empty list of n successful samples, median, p95 and p99 are the
\* elements at zero-based positions n div 2, floor(n * 95 / 100) and
\* floor(n * 99 / 100) of the list in ascending order, the three positions are
\* within 0..n-1, and min <= median <= p95 <= p99 <= max.
C14_OrderedPercentiles ==
    (mode = "stats" /\ hpc = "done") =>
        LET l == loc.latencies
            n == Len(l)
        IN  /\ n >= 1
            /\ {n \div 2, (n * 95) \div 100, (n * 99) \div 100} \subseteq 0..(n - 1)
            /\ IsOrderStatistic(l, stats.median_latency_ms, n \div 2)
            /\ IsOrderStatistic(l, stats.p95_latency_ms, (n * 95) \div 100)
            /\ IsOrderStatistic(l, stats.p99_latency_ms, (n * 99) \div 100)
            /\ IsOrderStatistic(l, stats.min_latency_ms, 0)
            /\ IsOrderStatistic(l, stats.max_latency_ms, n - 1)
            /\ stats.min_latency_ms <= stats.median_latency_ms
            /\ stats.median_latency_ms <= stats.p95_latency_ms
            /\ stats.p95_latency_ms <= stats.p99_latency_ms
            /\ stats.p99_latency_ms <= stats.max_latency_ms

\* 101 samples n, n-1, .., 1 in arrival order: the four upper statistics differ
C14_Witness ==
    /\ mode = "stats"
    /\ hpc = "done"
    /\ Len(loc.latencies) = 101
    /\ loc.latencies[1] = 101
    /\ stats.median_latency_ms = 51
    /\ stats.p95_latency_ms = 96
    /\ stats.p99_latency_ms = 100
    /\ stats.max_latency_ms = 101

TenSamples ==
    /\ mode = "stats"
    /\ hpc = "done"
    /\ Len(loc.latencies) = 10
    /\ {loc.latencies[j] : j \in 1..10} = 1..10

\* C15 as stated: for the samples 1..10 in any arrival order the statistics
\* report median = 5, p95 = 10 and p99 = 10.
C15_MedianFive ==
    TenSamples =>
        /\ stats.median_latency_ms = 5
        /\ stats.p95_latency_ms = 10
        /\ stats.p99_latency_ms = 10

\* C15: for the samples 1..10 in any arrival order the statistics report
\* median = 6 (the element at zero-based index 10 div 2 = 5), p95 = 10 and p99 = 10.
C15_MedianSix ==
    TenSamples =>
        /\ stats.median_latency_ms = 6
        /\ stats.p95_latency_ms = 10
        /\ stats.p99_latency_ms = 10

C15_Witness ==
    /\ TenSamples
    /\ loc.latencies = <<3, 6, 9, 2, 5, 8, 1, 4, 7, 10>>
    /\ stats.median_latency_ms = 6

ImageRunning == mode = "image" /\ hpc \in {"run", "done", "raised"}

\* C16: in the bulk test, after any sequence of successful and failed block round
\* trips the accumulated hardware ciphertext has 16 bytes per processed block (the
\* padded length at the end), the i-th 16 bytes are what the round trip on input
\* block i returned, or 16 zero bytes if it failed, and errors plus the number of
\* cycle-count samples is the number of blocks processed (all blocks at the end).
C16_BlockAlignment ==
    ImageRunning =>
        /\ Len(loc.hw_ciphertext) = 16 * loc.i
        /\ loc.errors + Len(loc.hw_cycles_list) = loc.i
        /\ \A j \in 1..loc.i :
               /\ log[j].plaintext = BlockAt(loc.pixels, j - 1)
               /\ BlockAt(loc.hw_ciphertext, j - 1)
                      = IF log[j].res.tag = "None"
                        THEN <<0, 0, 0, 0, 0, 0, 0, 0, 0, 0, 0, 0, 0, 0, 0, 0>>
                        ELSE log[j].res.ciphertext
        /\ hpc = "done" =>
               /\ Len(loc.hw_ciphertext) = Len(loc.pixels)
               /\ loc.errors + Len(loc.hw_cycles_list) = loc.num_blocks

C16_Witness ==
    /\ mode = "image"
    /\ hpc = "done"
    /\ loc.num_blocks = 3
    /\ LogPass(log[1])
    /\ LogNone(log[2])
    /\ LogPass(log[3])
    /\ Len(loc.hw_ciphertext) = 48
    /\ loc.errors = 1
    /\ Len(loc.hw_cycles_list) = 2

\* C17 as stated: when no block round trip failed, decrypting the accumulated
\* ciphertext with the same key and truncating to the original length gives the
\* original buffer.
C17_NoFailureReconstructs ==
    (mode = "image" /\ hpc = "done" /\ loc.errors = 0) =>
        stats.decrypted = loc.raw

\* C17: when every block round trip returned the reference ciphertext of its
\* block, decrypting the accumulated ciphertext with the same key and truncating
\* to the original length gives the original buffer, and the test reports a match.
C17_ReferenceReconstructs ==
    (mode = "image" /\ hpc = "done" /\ \A j \in 1..Len(log) : LogPass(log[j])) =>
        /\ stats.decrypted = loc.raw
        /\ stats.match

C17_Witness ==
    /\ mode = "image"
    /\ hpc = "done"
    /\ loc.num_blocks = 3
    /\ loc.original_len = 33
    /\ \A j \in 1..3 : LogPass(log[j])
    /\ stats.decrypted = loc.raw
    /\ Len(stats.decrypted) = 33

\* C18: the padded buffer's length is the smallest multiple of 16 that is at least
\* the original length L, its first L bytes are the original buffer, the appended
\* bytes are zero, there are 0..15 of them and none when L is a multiple of 16,
\* and the block count is the padded length divided by 16.
C18_Padding ==
    ImageRunning =>
        LET L == Len(loc.raw)
            P == Len(loc.pixels)
        IN  /\ loc.original_len = L
            /\ P % 16 = 0
            /\ P >= L
            /\ \A m \in 0..P : (m % 16 = 0 /\ m >= L) => m >= P
            /\ P - L \in 0..15
            /\ L % 16 = 0 => P = L
            /\ \A j \in 1..L : loc.pixels[j] = loc.raw[j]
            /\ \A j \in (L + 1)..P : loc.pixels[j] = 0
            /\ loc.num_blocks * 16 = P

C18_Witness ==
    /\ mode = "image"
    /\ hpc = "run"
    /\ Len(loc.raw) = 48
    /\ loc.pixels = loc.raw
    /\ loc.num_blocks = 3

\* a buffer that needs padding: 33 bytes padded with 15 zero bytes
C18_WitnessPadded ==
    /\ mode = "image"
    /\ hpc = "run"
    /\ Len(loc.raw) = 33
    /\ Len(loc.pixels) = 48
    /\ loc.pixels[34] = 0

\* the counts of the throughput test against the history of its round trips
ThroughputCounts ==
    mode = "throughput" =>
        /\ \A j \in 1..Len(log) : log[j].at < loc.duration_sec
        /\ loc.blocks_encrypted = Len(SelectSeq(log, LogOk))
        /\ loc.total_cycles = WideSum(CyclesOf(SelectSeq(log, LogOk)))
        /\ hpc = "done" =>
               /\ loc.now >= loc.duration_sec
               /\ stats.blocks = loc.blocks_encrypted
               /\ stats.avg_cycles = IF loc.blocks_encrypted = 0
                                     THEN [num |-> U32Zero, den |-> 1]
                                     ELSE [num |-> loc.total_cycles,
                                           den |-> loc.blocks_encrypted]

\* the test was left by an exception raised inside a round trip
RoundTripRaised == hpc = "raised" /\ log # <<>> /\ ~LogReturned(log[Len(log)])

\* C19: with every round trip taking a positive bounded time, no round trip is
\* started once the elapsed time has reached D, the block count and the cycle
\* total are those of the successful round trips (mean 0 without a success), and
\* the test returns its result (unless a round trip raised an exception).
C19_ThroughputReturns == []ThroughputCounts /\ <>(hpc = "done" \/ RoundTripRaised)

\* the test ends, by returning or by an exception
ThroughputEnds == <>(hpc \in {"done", "raised"})

\* duration 0: no round trip, two equal clock readings, division by zero
ThroughputZeroDivision ==
    mode = "throughput" /\ hpc = "raised" /\ log = <<>> /\ loc.duration_sec = 0

\* a call of encrypt_block has returned without a response
FailedRoundTrip ==
    /\ pc = "idle"
    /\ callNo > 0
    /\ serAtEntry # "Open" \/ (HasRead /\ Len(rx_data) < 20)

\* why it failed: no open connection, no byte within the timeout, or 1..19 bytes
FailureKind ==
    IF serAtEntry # "Open" THEN "NotConnected"
    ELSE IF rx_data = NoBytes THEN "Timeout"
    ELSE "ShortRead"

\* C20 as stated: the result of a failed round trip reports its kind, Timeout,
\* ShortRead or NotConnected, so that the caller can tell the three apart.
C20_KindReported == FailedRoundTrip => result.tag = FailureKind

\* C20: a round trip that fails for want of a connection, by timeout or by a
\* short read returns the same (None, None) in all three cases: the result carries
\* no error kind and nothing of the bytes that were read.
C20_SameResultForEveryKind ==
    FailedRoundTrip =>
        /\ FailureKind \in {"NotConnected", "Timeout", "ShortRead"}
        /\ result = [tag |-> "None", ciphertext |-> <<>>,
                     cycle_count |-> [hi |-> 0, lo |-> 0]]

C20_Witness ==
    /\ FailedRoundTrip
    /\ FailureKind = "Timeout"
    /\ ops = <<"clear", "write", "read">>
    /\ callNo = 2
    /\ result = NoneResult

\* a step of encrypt_block: the call is entered, or one of its transport calls
\* returns or raises
RoundTripStep == pc # "idle" \/ pc' # "idle" \/ callNo' # callNo

\* C21: no step of encrypt_block changes the connection: whether the round trip
\* succeeds, times out, reads short or raises, the connection it was entered
\* with is the connection it leaves; a call entered on the open connection after
\* a failed round trip goes on to clear, write and read again; and the connection
\* becomes Closed only by a disconnect, outside any round trip.
C21_ConnectionUntouched ==
    [][/\ RoundTripStep => (ser' = ser /\ port' = port /\ openHandles' = openHandles)
       /\ (pc = "read" /\ pc' = "idle" /\ result'.tag = "None") => ser' = "Open"
       /\ (pc = "idle" /\ callNo' # callNo /\ abandoned /\ ser = "Open"
               /\ Len(key') = 16 /\ Len(plaintext') = 16) => pc' = "clear"
       /\ (ser # "Closed" /\ ser' = "Closed") => (~RoundTripStep /\ ser = "Open")]_vars

\* the second call completed its clear, write and read on the connection that
\* the first call left after a failed round trip
C21_Witness ==
    /\ callNo = 2
    /\ pc = "idle"
    /\ abandoned
    /\ ser = "Open"
    /\ ops = <<"clear", "write", "read">>
    /\ result.tag = "Ok"

\* main has left the try block and its finally clause
MainExited == mode = "main" /\ hpc \in {"exit", "again"} /\ loc.connected

\* C22: once main holds an open connection, from auto_detect or from connect on
\* the given port, that connection is closed when main exits, whether every test
\* passed, some test failed or a test raised an exception; and a disconnect on
\* the connection so closed changes nothing.
C22_ClosedOnEveryExit ==
    /\ [](MainExited => (ser = "Closed" /\ port \notin openHandles))
    /\ []((mode = "main" /\ hpc \in {"try", "finally"}) =>
              (loc.connected /\ ser = "Open" /\ port \in openHandles))
    /\ [][(hpc = "exit" /\ hpc' = "again") =>
              (ser' = ser /\ openHandles' = openHandles /\ port' = port)]_vars

\* an exception raised by a test, on the connection that auto_detect returned
C22_Witness ==
    /\ mode = "main"
    /\ hpc = "exit"
    /\ loc.connected
    /\ loc.raised
    /\ adResult # 0
    /\ ser = "Closed"
    /\ port \notin openHandles

\* C23: the bulk test returns True only if no block round trip failed and every
\* hardware ciphertext block is the reference ciphertext block; with a failure
\* count above 0 the result is False, also when the reference ciphertext of the
\* failed block is 16 zero bytes.
C23_TrueOnlyWithoutFailure ==
    (mode = "image" /\ hpc = "done" /\ stats.match) =>
        /\ loc.errors = 0
        /\ \A j \in 1..Len(log) : LogPass(log[j])

\* what the returned value does say: the accumulated bytes, placeholders
\* included, are the reference ciphertext
ImageMatchMeansEqualBytes ==
    (mode = "image" /\ hpc = "done") =>
        (stats.match <=> loc.hw_ciphertext = EcbEncrypt(loc.key, loc.pixels))

\* a failed block whose placeholder is also its reference ciphertext
ImageFailureReportedAsMatch ==
    /\ mode = "image"
    /\ hpc = "done"
    /\ stats.match
    /\ loc.errors > 0

=============================================================================
